---- MODULE Spec2Model ----
(***************************************************************************)
(* The IOOS glider trajectory container (ioos_glider.py): the writer       *)
(* writer_0_0, which materialises a NetCDF container at a destination      *)
(* path, and the geojson handler, which projects a container to line       *)
(* geometry.                                                               *)
(*                                                                         *)
(* Two specifications share the state:                                     *)
(*   Spec      one call of writer_0_0, statement group by statement group, *)
(*             on a destination that is absent or holds an older container *)
(*   SpecProj  one call of geojson on a container found at the path        *)
(*                                                                         *)
(* Conventions.  An array is [shape, flat]: numpy's shape tuple and the    *)
(* elements in row-major order.  A datetime is [min, sec]: whole minutes   *)
(* since the epoch and the seconds within the minute.  float64 values are  *)
(* integers; the float64 fill value 9.969209968386869e+36 is NC_FILL_F8,   *)
(* the largest integer TLC holds, of which only the order relative to     *)
(* the other values matters.  Variable slices read as masked arrays.       *)
(* The container at the path is                                            *)
(* the object the open Dataset denotes (the library's buffering is not     *)
(* modelled).  Comparisons of an array with None are those of the numpy    *)
(* the script was written for: one truth value, true for every array.      *)
(***************************************************************************)
EXTENDS Integers, Sequences, FiniteSets, TLC

VARIABLES
  disk,      \* the container at the destination path, or NoFile
  prior,     \* what the path held when the call began (history)
  wpc,       \* writer_0_0: the statement group to run next
  wargs,     \* writer_0_0: the arguments of the call
  whandle,   \* writer_0_0: "none", "open" or "closed" (the Dataset nc)
  werr,      \* writer_0_0: the exception that ended the call, or "none"
  wk,        \* writer_0_0: the number of schema variables written so far
  rpc,       \* geojson: the statement group to run next
  rhandle,   \* geojson: "none", "open" or "closed" (the Dataset nc)
  rerr,      \* geojson: the exception being raised, or "none"
  rstride,   \* geojson: the local stride
  rlon,      \* geojson: the local lon, the strided longitude sample
  rlat,      \* geojson: the local lat, the strided latitude sample
  rres       \* geojson: the document f that is dumped into the response

vars == <<disk, prior, wpc, wargs, whandle, werr, wk,
          rpc, rhandle, rerr, rstride, rlon, rlat, rres>>

wvars == <<wpc, wargs, whandle, werr, wk>>
rvars == <<rpc, rhandle, rerr, rstride, rlon, rlat, rres>>

----------------------------------------------------------------------------
(* Bounds of the model *)

MaxLen == 2        \* longest time series handed to the writer
MaxUv == 1         \* longest time_uv series handed to the writer
MaxTraj == 2       \* largest trajectory count handed to the writer
MaxProjLen == 3    \* longest short coordinate series given to the projector
MaxProjTraj == 2   \* most trajectory columns given to the projector

----------------------------------------------------------------------------
(* Program constants *)

NC_FILL_F8 == 2147483647
NC_FILL_I2 == -32767
NC_FILL_I1 == -127
StrideLimit == 1000
LongStride == 200
SentinelLimit == 1000
QcFlagMax == 9

NC_FILL_VALUES(dtype) ==
  CASE dtype = "f8" -> NC_FILL_F8
    [] dtype = "i2" -> NC_FILL_I2
    [] dtype = "i1" -> NC_FILL_I1

QC_FLAGS == 0..QcFlagMax

----------------------------------------------------------------------------
(* Arrays and datetimes *)

Range(s) == {s[i] : i \in DOMAIN s}

RECURSIVE Product(_)
Product(shape) ==
  IF shape = <<>> THEN 1 ELSE Head(shape) * Product(Tail(shape))

FullArr(shape, v) == [shape |-> shape, flat |-> [f \in 1..Product(shape) |-> v]]

ArrSize(arr) == Len(arr.flat)

\* len(x) and x.shape[0]
LeadLen(arr) == arr.shape[1]
\* the first element taken for the maximum
ArrFirst(arr) == arr.flat[1]

ArrMax(arr) == CHOOSE m \in Range(arr.flat) : \A x \in Range(arr.flat) : x <= m
ArrMin(arr) == CHOOSE m \in Range(arr.flat) : \A x \in Range(arr.flat) : m <= x

\* date2num(d, "seconds since 1970-01-01 00:00:00 UTC"), num2date, and
\* strftime("%Y-%m-%d %H:%M UTC"), which prints no seconds
Date2Num(d) == d.min * 60 + d.sec
Num2Date(n) == [min |-> n \div 60, sec |-> n % 60]
Strftime(d) == [isnone |-> FALSE, min |-> d.min]
None == [isnone |-> TRUE, min |-> 0]

Now == "<ctime>"

----------------------------------------------------------------------------
(* The schema: the variables writer_0_0 creates, in the order of the source, *)
(* each with the keys of its atts dictionary in the order written there      *)

Schema ==
   << [name |-> "time", dtype |-> "f8", dims |-> "time", fill |-> FALSE, qc |-> FALSE,
        atts |-> <<"axis", "calendar", "units", "standard_name", "long_name", "observation_type", "sensor_name">>],
      [name |-> "time_qc", dtype |-> "i1", dims |-> "time", fill |-> TRUE, qc |-> TRUE,
        atts |-> <<"long_name", "standard_name", "flag_meanings", "valid_min", "valid_max", "flag_values">>],
      [name |-> "time_uv", dtype |-> "f8", dims |-> "time_uv", fill |-> FALSE, qc |-> FALSE,
        atts |-> <<"axis", "calendar", "units", "standard_name", "long_name", "observation_type">>],
      [name |-> "trajectory", dtype |-> "i2", dims |-> "trajectory", fill |-> FALSE, qc |-> FALSE,
        atts |-> <<"cf_role", "long_name", "comment">>],
      [name |-> "segment_id", dtype |-> "i2", dims |-> "dim", fill |-> TRUE, qc |-> FALSE,
        atts |-> <<"comment", "long_name", "valid_min", "valid_max", "observation_type">>],
      [name |-> "profile_id", dtype |-> "i2", dims |-> "dim", fill |-> TRUE, qc |-> FALSE,
        atts |-> <<"comment", "long_name", "valid_min", "valid_max", "observation_type">>],
      [name |-> "depth", dtype |-> "f8", dims |-> "dim", fill |-> TRUE, qc |-> FALSE,
        atts |-> <<"axis", "units", "standard_name", "valid_min", "valid_max", "long_name", "reference_datum", "positive", "observation_type", "ancillary_variables", "platform", "instrument", "sensor_name">>],
      [name |-> "depth_qc", dtype |-> "i1", dims |-> "dim", fill |-> TRUE, qc |-> TRUE,
        atts |-> <<"long_name", "standard_name", "flag_meanings", "valid_min", "valid_max", "flag_values">>],
      [name |-> "lat", dtype |-> "f8", dims |-> "dim", fill |-> TRUE, qc |-> FALSE,
        atts |-> <<"axis", "units", "standard_name", "long_name", "flag_meanings", "valid_min", "valid_max", "observation_type", "ancillary_variables", "platform", "comment", "sensor_name", "reference", "coordinate_reference_frame">>],
      [name |-> "lat_qc", dtype |-> "i1", dims |-> "dim", fill |-> TRUE, qc |-> TRUE,
        atts |-> <<"long_name", "standard_name", "flag_meanings", "valid_min", "valid_max", "flag_values">>],
      [name |-> "lon", dtype |-> "f8", dims |-> "dim", fill |-> TRUE, qc |-> FALSE,
        atts |-> <<"axis", "units", "standard_name", "long_name", "flag_meanings", "valid_min", "valid_max", "observation_type", "ancillary_variables", "platform", "comment", "sensor_name", "reference", "coordinate_reference_frame">>],
      [name |-> "lon_qc", dtype |-> "i1", dims |-> "dim", fill |-> TRUE, qc |-> TRUE,
        atts |-> <<"long_name", "standard_name", "flag_meanings", "valid_min", "valid_max", "flag_values">>],
      [name |-> "pressure", dtype |-> "f8", dims |-> "dim", fill |-> TRUE, qc |-> FALSE,
        atts |-> <<"axis", "units", "standard_name", "valid_min", "valid_max", "long_name", "reference_datum", "positive", "observation_type", "ancillary_variables", "platform", "instrument", "accuracy", "precision", "resolution", "sensor_name">>],
      [name |-> "pressure_qc", dtype |-> "i1", dims |-> "dim", fill |-> TRUE, qc |-> TRUE,
        atts |-> <<"long_name", "standard_name", "flag_meanings", "valid_min", "valid_max", "flag_values">>],
      [name |-> "conductivity", dtype |-> "f8", dims |-> "dim", fill |-> TRUE, qc |-> FALSE,
        atts |-> <<"units", "standard_name", "valid_min", "valid_max", "long_name", "observation_type", "ancillary_variables", "platform", "instrument", "coordinates", "accuracy", "precision", "resolution", "sensor_name">>],
      [name |-> "conductivity_qc", dtype |-> "i1", dims |-> "dim", fill |-> TRUE, qc |-> TRUE,
        atts |-> <<"long_name", "standard_name", "flag_meanings", "valid_min", "valid_max", "flag_values">>],
      [name |-> "density", dtype |-> "f8", dims |-> "dim", fill |-> TRUE, qc |-> FALSE,
        atts |-> <<"units", "standard_name", "valid_min", "valid_max", "long_name", "observation_type", "ancillary_variables", "platform", "instrument", "coordinates", "sensor_name">>],
      [name |-> "density_qc", dtype |-> "i1", dims |-> "dim", fill |-> TRUE, qc |-> TRUE,
        atts |-> <<"long_name", "standard_name", "flag_meanings", "valid_min", "valid_max", "flag_values">>],
      [name |-> "salinity", dtype |-> "f8", dims |-> "dim", fill |-> TRUE, qc |-> FALSE,
        atts |-> <<"units", "standard_name", "valid_min", "valid_max", "long_name", "observation_type", "ancillary_variables", "platform", "instrument", "coordinates", "sensor_name">>],
      [name |-> "salinity_qc", dtype |-> "i1", dims |-> "dim", fill |-> TRUE, qc |-> TRUE,
        atts |-> <<"long_name", "standard_name", "flag_meanings", "valid_min", "valid_max", "flag_values">>],
      [name |-> "temperature", dtype |-> "f8", dims |-> "dim", fill |-> TRUE, qc |-> FALSE,
        atts |-> <<"units", "standard_name", "valid_min", "valid_max", "long_name", "observation_type", "ancillary_variables", "platform", "instrument", "coordinates", "accuracy", "precision", "resolution", "sensor_name">>],
      [name |-> "temperature_qc", dtype |-> "i1", dims |-> "dim", fill |-> TRUE, qc |-> TRUE,
        atts |-> <<"long_name", "standard_name", "flag_meanings", "valid_min", "valid_max", "flag_values">>],
      [name |-> "lat_uv", dtype |-> "f8", dims |-> "uv", fill |-> TRUE, qc |-> FALSE,
        atts |-> <<"axis", "units", "standard_name", "long_name", "valid_min", "valid_max", "observation_type", "platform", "comment">>],
      [name |-> "lon_uv", dtype |-> "f8", dims |-> "uv", fill |-> TRUE, qc |-> FALSE,
        atts |-> <<"axis", "units", "standard_name", "long_name", "valid_min", "valid_max", "observation_type", "platform", "comment">>],
      [name |-> "u", dtype |-> "f8", dims |-> "uv", fill |-> TRUE, qc |-> FALSE,
        atts |-> <<"units", "standard_name", "valid_min", "valid_max", "long_name", "observation_type", "coordinates", "platform", "sensor_name">>],
      [name |-> "u_qc", dtype |-> "i1", dims |-> "uv", fill |-> TRUE, qc |-> TRUE,
        atts |-> <<"long_name", "standard_name", "flag_meanings", "valid_min", "valid_max", "flag_values">>],
      [name |-> "v", dtype |-> "f8", dims |-> "uv", fill |-> TRUE, qc |-> FALSE,
        atts |-> <<"units", "standard_name", "valid_min", "valid_max", "long_name", "observation_type", "coordinates", "platform", "sensor_name">>],
      [name |-> "v_qc", dtype |-> "i1", dims |-> "uv", fill |-> TRUE, qc |-> TRUE,
        atts |-> <<"long_name", "standard_name", "flag_meanings", "valid_min", "valid_max", "flag_values">>],
      [name |-> "platform", dtype |-> "i1", dims |-> "none", fill |-> FALSE, qc |-> FALSE,
        atts |-> <<"type", "id", "wmo_id", "comment", "long_name", "instrument">>],
      [name |-> "instrument_ctd", dtype |-> "i1", dims |-> "none", fill |-> FALSE, qc |-> FALSE,
        atts |-> <<"serial_number", "make_model", "comment", "long_name", "platform", "calibration_date", "factory_calibrated", "user_calibrated", "calibration_report">>] >>

NumVars == Len(Schema)
VarNames == {Schema[k].name : k \in 1..NumVars}
QcNames == {Schema[k].name : k \in {j \in 1..NumVars : Schema[j].qc}}
ArgNames == {Schema[k].name : k \in {j \in 1..NumVars : Schema[j].dims # "none"}}

\* the collation of sorted() over every key the model uses
KeyOrder ==
   <<"Conventions", "Metadata_Conventions", "accuracy", "acknowledgment", 
     "ancillary_variables", "axis", "calendar", "calibration_date", 
     "calibration_report", "cdm_data_type", "cf_role", "comment", 
     "contributor_name", "contributor_role", "coordinate_reference_frame", 
     "coordinates", "creator_email", "creator_name", "creator_url", 
     "date_created", "date_issued", "date_modified", "factory_calibrated", 
     "featureType", "flag_meanings", "flag_values", "format_version", 
     "geospatial_lat_max", "geospatial_lat_min", "geospatial_lat_resolution", 
     "geospatial_lat_units", "geospatial_lon_max", "geospatial_lon_min", 
     "geospatial_lon_resolution", "geospatial_lon_units", 
     "geospatial_vertical_max", "geospatial_vertical_min", 
     "geospatial_vertical_positive", "geospatial_vertical_resolution", 
     "geospatial_vertical_units", "history", "id", "institution", 
     "instrument", "keywords", "keywords_vocabulary", "license", "long_name", 
     "make_model", "metadata_link", "naming_authority", "observation_type", 
     "platform", "positive", "precision", "processing_level", "project", 
     "publisher_email", "publisher_name", "publisher_url", "reference", 
     "reference_datum", "references", "resolution", "sea_name", "sensor_name", 
     "serial_number", "source", "standard_name", "standard_name_vocabulary", 
     "summary", "time_coverage_end", "time_coverage_resolution", 
     "time_coverage_start", "title", "type", "units", "user_calibrated", 
     "valid_max", "valid_min", "wmo_id", "zz_extra">>

Sorted(keys) == SelectSeq(KeyOrder, LAMBDA k : k \in keys)


----------------------------------------------------------------------------
(* Containers: what netCDF4.Dataset holds *)

NoFile == [exists |-> FALSE, dims |-> <<>>, gattrs |-> <<>>, vars |-> <<>>]

\* Dataset(filename, 'w'): the file is created, or truncated if it exists
NewDataset == [exists |-> TRUE, dims |-> <<>>, gattrs |-> <<>>, vars |-> <<>>]

DimNames(c) == {c.dims[i].name : i \in DOMAIN c.dims}
HasVar(c, name) == \E i \in DOMAIN c.vars : c.vars[i].name = name
VarOf(c, name) == c.vars[CHOOSE i \in DOMAIN c.vars : c.vars[i].name = name]
DimSize(c, name) ==
  c.dims[CHOOSE i \in DOMAIN c.dims : c.dims[i].name = name].size
GAttrKeys(c) == {c.gattrs[i][1] : i \in DOMAIN c.gattrs}
GAttr(c, key) ==
  c.gattrs[CHOOSE i \in DOMAIN c.gattrs : c.gattrs[i][1] = key][2]

\* createDimension(name, size): a size of 0 (or None) declares it unlimited
CreateDimension(c, name, size) ==
  [c EXCEPT !.dims =
     Append(@, [name |-> name, size |-> size, unlimited |-> (size = 0)])]

NumUnlimited(c) == Cardinality({i \in DOMAIN c.dims : c.dims[i].unlimited})

ShapeOf(c, dims) == [i \in DOMAIN dims |-> DimSize(c, dims[i])]

\* createVariable: the variable exists with every element unwritten, which
\* reads as the fill value of its type
CreateVariable(c, name, dtype, dims, hasfill) ==
  [c EXCEPT !.vars =
     Append(@, [name |-> name, dtype |-> dtype, dims |-> dims,
                fill |-> hasfill, atts |-> <<>>, written |-> FALSE,
                data |-> FullArr(ShapeOf(c, dims), NC_FILL_VALUES(dtype))])]
\* the attributes set in the order of the dictionary literal
SetVarAttsAsGiven(c, name, atts) ==
  [c EXCEPT !.vars =
     [i \in DOMAIN @ |->
        IF @[i].name = name
        THEN [@[i] EXCEPT !.atts = @ \o atts]
        ELSE @[i]]]

\* for k in sorted(atts.keys()): var.setncattr(k, atts[k])
SetVarAtts(c, name, atts) ==
  [c EXCEPT !.vars =
     [i \in DOMAIN @ |->
        IF @[i].name = name
        THEN [@[i] EXCEPT !.atts = @ \o Sorted(Range(atts))]
        ELSE @[i]]]

\* var[:] = value conforms when value has as many elements as the variable,
\* or holds one element, which is then repeated (netCDF4 Variable._put)
AssignOK(c, name, value) ==
  LET v == VarOf(c, name) IN
    \/ ArrSize(value) = ArrSize(v.data)
    \/ ArrSize(value) = 1 /\ Len(value.shape) = Len(v.data.shape)

AssignSlice(c, name, value) ==
  [c EXCEPT !.vars =
     [i \in DOMAIN @ |->
        IF @[i].name = name
        THEN [@[i] EXCEPT
                !.written = TRUE,
                !.data = [shape |-> @.shape,
                          flat |-> IF ArrSize(value) = Len(@.flat)
                                   THEN value.flat
                                   ELSE [f \in DOMAIN @.flat |-> value.flat[1]]]]
        ELSE @[i]]]

----------------------------------------------------------------------------
(* writer_0_0 *)

ReqTimeVars == <<"depth", "lat", "lon", "pressure", "conductivity",
                 "density", "salinity", "temperature">>
ReqUvVars == <<"u", "v", "lat_uv", "lon_uv">>
QualityVars == <<"depth_qc", "lat_qc", "lon_qc", "pressure_qc",
                 "conductivity_qc", "density_qc", "salinity_qc",
                 "temperature_qc">>

\* req_time_vars after the supplied quality arrays are appended
CheckedTimeVars(a) ==
  ReqTimeVars \o SelectSeq(QualityVars, LAMBDA q : q \in a.given)

time_size(a) == LeadLen(a.data["time"])
trajectory_size(a) == LeadLen(a.data["trajectory"])
time_uv_size(a) == LeadLen(a.data["time_uv"])

\* the two assert loops
ShapesOK(a) ==
  /\ \A i \in DOMAIN CheckedTimeVars(a) :
        time_size(a) = LeadLen(a.data[CheckedTimeVars(a)[i]])
  /\ \A i \in DOMAIN ReqUvVars :
        time_uv_size(a) = LeadLen(a.data[ReqUvVars[i]])
\* the trajectory dimension created first
CreateDimsTrajectoryFirst(c, a) ==
  CreateDimension(
    CreateDimension(
      CreateDimension(c, "trajectory", trajectory_size(a)),
      "time", time_size(a)),
    "time_uv", time_uv_size(a))

\* the trajectory dimension created with the size of the time series
CreateDimsTimeSized(c, a) ==
  CreateDimension(
    CreateDimension(
      CreateDimension(c, "time", time_size(a)),
      "trajectory", time_size(a)),
    "time_uv", time_uv_size(a))

CreateDims(c, a) ==
  CreateDimension(
    CreateDimension(
      CreateDimension(c, "time", time_size(a)),
      "trajectory", trajectory_size(a)),
    "time_uv", time_uv_size(a))

\* NETCDF4_CLASSIC admits one unlimited dimension
DimsOK(a) == NumUnlimited(CreateDims(NewDataset, a)) <= 1

\* dim_tuple with the test off by one: a single trajectory laid out in 2-D
dim_tuple_ge(a) ==
  IF trajectory_size(a) >= 1 THEN <<"time", "trajectory">> ELSE <<"time">>

dim_tuple(a) ==
  IF trajectory_size(a) > 1 THEN <<"time", "trajectory">> ELSE <<"time">>

uv_tuple(a) ==
  IF trajectory_size(a) > 1 THEN <<"time_uv", "trajectory">> ELSE <<"time_uv">>

\* the dictionary literal evaluates max() and min() of latdata, londata and
\* depthdata and indexes timedata[0] and timedata[-1]
GlobalsError(a) ==
  IF \E n \in {"lat", "lon", "depth"} : ArrSize(a.data[n]) = 0
  THEN "ValueError"
  ELSE IF ArrSize(a.data["time"]) = 0 THEN "IndexError" ELSE "none"

GlobalDefaults(a) ==
   << <<"Conventions", "CF-1.6">>,
      <<"Metadata_Conventions", "Unidata Dataset Discovery v1.0">>,
      <<"acknowledgment", "This deployment partially supported by ...">>,
      <<"cdm_data_type", "Trajectory">>,
      <<"comment", "This file is intended to be used as a template only.  Data is not to be used for scientific purposes.">>,
      <<"contributor_name", "Scott Glenn, Oscar Schofield, John Kerfoot">>,
      <<"contributor_role", "Principal Investigator, Principal Investigator, Data Manager">>,
      <<"creator_email", "kerfoot@marine.rutgers.edu">>,
      <<"creator_name", "John Kerfoot">>,
      <<"creator_url", "http://marine.rutgers.edu/cool/auvs">>,
      <<"date_created", Now>>,
      <<"date_issued", Now>>,
      <<"date_modified", Now>>,
      <<"featureType", "trajectory">>,
      <<"format_version", "IOOS_Glider_NetCDF_Trajectory_Template_v0.0">>,
      <<"geospatial_lat_max", ArrMax(a.data["lat"])>>,
      <<"geospatial_lat_min", ArrMin(a.data["lat"])>>,
      <<"geospatial_lat_resolution", "point">>,
      <<"geospatial_lat_units", "degrees_north">>,
      <<"geospatial_lon_max", ArrMax(a.data["lon"])>>,
      <<"geospatial_lon_min", ArrMin(a.data["lon"])>>,
      <<"geospatial_lon_resolution", "point">>,
      <<"geospatial_lon_units", "degrees_east">>,
      <<"geospatial_vertical_max", ArrMax(a.data["depth"])>>,
      <<"geospatial_vertical_min", ArrMin(a.data["depth"])>>,
      <<"geospatial_vertical_positive", "down">>,
      <<"geospatial_vertical_resolution", "point">>,
      <<"geospatial_vertical_units", "meters">>,
      <<"history", "Created on <ctime>">>,
      <<"id", "">>,
      <<"institution", "Institute of Marine & Coastal Sciences, Rutgers University">>,
      <<"keywords", "Oceans > Ocean Pressure > Water Pressure, Oceans > Ocean Temperature > Water Temperature, Oceans > Salinity/Density > Conductivity, Oceans > Salinity/Density > Density, Oceans > Salinity/Density > Salinity">>,
      <<"keywords_vocabulary", "GCMD Science Keywords">>,
      <<"license", "This data may be redistributed and used without restriction.">>,
      <<"metadata_link", "">>,
      <<"naming_authority", "edu.rutgers.marine">>,
      <<"processing_level", "Written to file from ioos_glider.writer_0_0()">>,
      <<"project", "Deployment not project based">>,
      <<"publisher_email", "kerfoot@marine.rutgers.edu">>,
      <<"publisher_name", "John Kerfoot">>,
      <<"publisher_url", "http://marine.rutgers.edu/cool/auvs">>,
      <<"references", "">>,
      <<"sea_name", "">>,
      <<"standard_name_vocabulary", "CF-v25">>,
      <<"source", "Observational data from a profiling glider">>,
      <<"summary", "The Rutgers University Coastal Ocean Observation Lab has deployed autonomous underwater gliders around the world since 1990. Gliders are small, free-swimming, unmanned vehicles that use changes in buoyancy to move vertically and horizontally through the water column in a saw-tooth pattern. They are deployed for days to several months and gather detailed information about the physical, chemical and biological processes of the world's The Slocum glider was designed and oceans. built by Teledyne Webb Research Corporation, Falmouth, MA, USA.">>,
      <<"time_coverage_end", Strftime(a.data["time"].flat[1])>>,
      <<"time_coverage_resolution", "point">>,
      <<"time_coverage_start", Strftime(a.data["time"].flat[Len(a.data["time"].flat)])>>,
      <<"title", "Glider Dataset">> >>
\* the merge with the defaults winning over kwargs
MergedGlobalsDefaultsWin(a) ==
  LET defaults == GlobalDefaults(a)
      dkeys == {defaults[i][1] : i \in DOMAIN defaults}
      kkeys == {a.kwargs[i][1] : i \in DOMAIN a.kwargs}
  IN [k \in dkeys \cup kkeys |->
        IF k \in dkeys
        THEN defaults[CHOOSE i \in DOMAIN defaults : defaults[i][1] = k][2]
        ELSE a.kwargs[CHOOSE i \in DOMAIN a.kwargs : a.kwargs[i][1] = k][2]]

\* global_attributes after "for key in kwargs.iterkeys()": a dictionary
MergedGlobals(a) ==
  LET defaults == GlobalDefaults(a)
      dkeys == {defaults[i][1] : i \in DOMAIN defaults}
      kkeys == {a.kwargs[i][1] : i \in DOMAIN a.kwargs}
  IN [k \in dkeys \cup kkeys |->
        IF k \in kkeys
        THEN a.kwargs[CHOOSE i \in DOMAIN a.kwargs : a.kwargs[i][1] = k][2]
        ELSE defaults[CHOOSE i \in DOMAIN defaults : defaults[i][1] = k][2]]

\* for k in sorted(global_attributes.keys()): nc.setncattr(k, ...)
SetGlobals(c, a) ==
  LET g == MergedGlobals(a)
      order == Sorted(DOMAIN g)
  IN [c EXCEPT !.gattrs = @ \o [i \in DOMAIN order |-> <<order[i], g[order[i]]>>]]

VarDims(d, a) ==
  CASE d.dims = "time" -> <<"time">>
    [] d.dims = "time_uv" -> <<"time_uv">>
    [] d.dims = "trajectory" -> <<"trajectory">>
    [] d.dims = "dim" -> dim_tuple(a)
    [] d.dims = "uv" -> uv_tuple(a)
    [] d.dims = "none" -> <<>>

\* whether the statement group of variable d ends in an assignment var[:] = ...
Assigns(d, a) == d.dims # "none" /\ (d.qc => d.name \in a.given)

\* the value assigned: time and time_uv go through date2num
Assigned(d, a) ==
  IF d.name \in {"time", "time_uv"}
  THEN [shape |-> a.data[d.name].shape,
        flat |-> [f \in DOMAIN a.data[d.name].flat |->
                    Date2Num(a.data[d.name].flat[f])]]
  ELSE a.data[d.name]
\* every variable created with the fill value of its type
DeclareVarFilled(c, a, k) ==
  LET d == Schema[k] IN
    SetVarAtts(CreateVariable(c, d.name, d.dtype, VarDims(d, a), TRUE),
               d.name, d.atts)

\* createVariable and the attribute loop of schema variable k
DeclareVar(c, a, k) ==
  LET d == Schema[k] IN
    SetVarAtts(CreateVariable(c, d.name, d.dtype, VarDims(d, a), d.fill),
               d.name, d.atts)

VarOK(c, a, k) ==
  LET d == Schema[k] IN
    Assigns(d, a) => AssignOK(DeclareVar(c, a, k), d.name, Assigned(d, a))

\* WriteVar with an omitted quality array synthesised as zeros
WriteVarZeroQc(c, a, k) ==
  LET d == Schema[k]
      declared == DeclareVar(c, a, k)
  IN IF Assigns(d, a)
     THEN AssignSlice(declared, d.name, Assigned(d, a))
     ELSE IF d.qc
     THEN AssignSlice(declared, d.name,
                      FullArr(VarOf(declared, d.name).data.shape, 0))
     ELSE declared

\* the whole statement group of schema variable k, when it raises nothing
WriteVar(c, a, k) ==
  LET d == Schema[k] IN
    IF Assigns(d, a)
    THEN AssignSlice(DeclareVar(c, a, k), d.name, Assigned(d, a))
    ELSE DeclareVar(c, a, k)

RECURSIVE WriteVars(_, _, _)
WriteVars(c, a, k) ==
  IF k > NumVars THEN c ELSE WriteVars(WriteVar(c, a, k), a, k + 1)

\* the container a call that raises nothing leaves behind
Written(a) == WriteVars(SetGlobals(CreateDims(NewDataset, a), a), a, 1)

----------------------------------------------------------------------------
(* The calls of writer_0_0 that are explored *)

DimsKind(name) ==
  Schema[CHOOSE k \in 1..NumVars : Schema[k].name = name].dims

\* the shape a consistent caller gives the array of argument name
BaseShape(name, L, Luv, T) ==
  CASE DimsKind(name) = "time" -> <<L>>
    [] DimsKind(name) = "time_uv" -> <<Luv>>
    [] DimsKind(name) = "trajectory" -> <<T>>
    [] DimsKind(name) = "dim" -> IF T > 1 THEN <<L, T>> ELSE <<L>>
    [] DimsKind(name) = "uv" -> IF T > 1 THEN <<Luv, T>> ELSE <<Luv>>

\* argument dev, if any, is one record longer than the others of its class
ArgShape(name, L, Luv, T, dev) ==
  IF name = dev
  THEN [BaseShape(name, L, Luv, T) EXCEPT ![1] = @ + 1]
  ELSE BaseShape(name, L, Luv, T)

Ramp(pat, n, f) == IF pat = "asc" THEN f ELSE n + 1 - f

ArgValue(name, pat, qcpat, n, f) ==
  CASE name \in {"time", "time_uv"} ->
         [min |-> 2 * Ramp(pat, n, f), sec |-> 10 + Ramp(pat, n, f)]
    [] name = "trajectory" -> 10 - f
    [] name = "lat" -> 30 + Ramp(pat, n, f)
    [] name = "lon" -> 0 - 70 - Ramp(pat, n, f)
    [] name = "depth" -> 5 * Ramp(pat, n, f)
    [] name \in QcNames -> IF qcpat = "valid" THEN f % (QcFlagMax + 1) ELSE 12
    [] OTHER -> 1

\* given holds the quality arguments that are not None; the entry of data
\* for a quality argument outside given is never read
MakeArgs(L, Luv, T, pat, v) ==
  [data |-> [name \in ArgNames |->
               LET shape == ArgShape(name, L, Luv, T, v.dev)
                   n == Product(shape)
               IN [shape |-> shape,
                   flat |-> [f \in 1..n |-> ArgValue(name, pat, v.qcpat, n, f)]]],
   given |-> v.given,
   kwargs |-> v.kw]

KwChoices ==
  { <<>>,
    << <<"title", "Deployment 7">> >>,
    << <<"processing_level", "">>, <<"source", "">> >>,
    << <<"geospatial_lat_min", 0 - 90>>, <<"zz_extra", "x">> >> }

Variants ==
  {[given |-> {}, qcpat |-> "valid", dev |-> "", kw |-> kw] : kw \in KwChoices}
  \cup
  {[given |-> g, qcpat |-> p, dev |-> "", kw |-> <<>>] :
      g \in {{q} : q \in QcNames} \cup {QcNames}, p \in {"valid", "invalid"}}
  \cup
  {[given |-> IF n \in QcNames THEN {n} ELSE {}, qcpat |-> "valid",
    dev |-> n, kw |-> <<>>] :
      n \in ArgNames \ {"time", "time_uv", "trajectory"}}

WriterInputs ==
  {MakeArgs(L, Luv, T, pat, v) :
      L \in 0..MaxLen, Luv \in 1..MaxUv, T \in 0..MaxTraj,
      pat \in {"asc", "desc"}, v \in Variants}

\* a container an earlier call committed at the same path
OldContainer ==
  Written(MakeArgs(1, 1, 1, "asc",
                   [given |-> {}, qcpat |-> "valid", dev |-> "", kw |-> <<>>]))

NoArgs == [data |-> <<>>, given |-> {}, kwargs |-> <<>>]

\* response = "Problem"
NoResponse == [f |-> [type |-> "Problem"], callback |-> ""]

----------------------------------------------------------------------------
(* One call of writer_0_0 *)

ReaderIdle ==
  /\ rpc = "idle" /\ rhandle = "none" /\ rerr = "none" /\ rstride = 0
  /\ rlon = <<>> /\ rlat = <<>> /\ rres = NoResponse

Init ==
  /\ disk \in {NoFile, OldContainer}
  /\ prior = disk
  /\ wargs \in WriterInputs
  /\ wpc = "open" /\ whandle = "none" /\ werr = "none" /\ wk = 0
  /\ ReaderIdle

Raise(e) == wpc' = "failed" /\ werr' = e

\* nc = Dataset(filename, 'w', format='NETCDF4_CLASSIC')
WOpen ==
  /\ wpc = "open"
  /\ disk' = NewDataset
  /\ whandle' = "open"
  /\ wpc' = "validate"
  /\ UNCHANGED <<prior, wargs, werr, wk, rvars>>

\* the required-variable lists and the two assert loops
WValidate ==
  /\ wpc = "validate"
  /\ IF ShapesOK(wargs)
     THEN wpc' = "dims" /\ werr' = werr
     ELSE Raise("AssertionError")
  /\ UNCHANGED <<disk, prior, wargs, whandle, wk, rvars>>

\* the three createDimension calls and the choice of dim_tuple, uv_tuple
WCreateDims ==
  /\ wpc = "dims"
  /\ IF DimsOK(wargs)
     THEN /\ disk' = CreateDims(disk, wargs)
          /\ wpc' = "globals" /\ werr' = werr
     ELSE /\ disk' = CreateDimension(disk, "time", time_size(wargs))
          /\ Raise("RuntimeError")
  /\ UNCHANGED <<prior, wargs, whandle, wk, rvars>>

\* the global_attributes dictionary, the kwargs loop, the setncattr loop
WGlobals ==
  /\ wpc = "globals"
  /\ IF GlobalsError(wargs) = "none"
     THEN /\ disk' = SetGlobals(disk, wargs)
          /\ wpc' = "vars" /\ werr' = werr
     ELSE /\ disk' = disk
          /\ Raise(GlobalsError(wargs))
  /\ UNCHANGED <<prior, wargs, whandle, wk, rvars>>

\* the statement group of the next schema variable: createVariable, the
\* attribute loop, and the assignment of its data if it has any
WVariable ==
  /\ wpc = "vars"
  /\ IF VarOK(disk, wargs, wk + 1)
     THEN /\ disk' = WriteVar(disk, wargs, wk + 1)
          /\ wk' = wk + 1
          /\ wpc' = IF wk + 1 = NumVars THEN "close" ELSE "vars"
          /\ werr' = werr
     ELSE /\ disk' = DeclareVar(disk, wargs, wk + 1)
          /\ wk' = wk
          /\ Raise("IndexError")
  /\ UNCHANGED <<prior, wargs, whandle, rvars>>

\* nc.close()
WClose ==
  /\ wpc = "close"
  /\ whandle' = "closed"
  /\ wpc' = "done"
  /\ UNCHANGED <<disk, prior, wargs, werr, wk, rvars>>

Next == WOpen \/ WValidate \/ WCreateDims \/ WGlobals \/ WVariable \/ WClose

Spec == Init /\ [][Next]_vars

----------------------------------------------------------------------------
(* The read path: get_stride, get_time_coverage, geojson *)

\* series[::step]: the elements at the offsets 0, step, 2*step, ... below n
Strided(series, step) ==
  LET offsets == {i \in 0..(Len(series) - 1) : i % step = 0}
  IN [j \in 1..Cardinality(offsets) |-> series[(j - 1) * step + 1]]

\* the rows of a variable's data along its leading axis
Rows(arr) ==
  LET width == IF Len(arr.shape) = 2 THEN arr.shape[2] ELSE 1
  IN [r \in 1..arr.shape[1] |-> [j \in 1..width |-> arr.flat[(r - 1) * width + j]]]

\* arr[::step].flatten().data and arr[::step, i].flatten().data (i from 0)
FlatSample(arr, step) ==
  LET rows == Strided(Rows(arr), step)
      width == IF Len(arr.shape) = 2 THEN arr.shape[2] ELSE 1
  IN [f \in 1..(Len(rows) * width) |->
        rows[((f - 1) \div width) + 1][((f - 1) % width) + 1]]

ColumnSample(arr, step, i) ==
  LET rows == Strided(Rows(arr), step)
  IN [r \in 1..Len(rows) |-> rows[r][i + 1]]

\* get_stride with the test off by one
get_stride_ge(c) ==
  IF VarOf(c, "lon").data.shape[1] >= StrideLimit THEN LongStride ELSE 1

get_stride(c) ==
  IF VarOf(c, "lon").data.shape[1] > StrideLimit THEN LongStride ELSE 1

\* the time variable get_time_coverage settles on, "" for None
TimeName(c) ==
  IF HasVar(c, "time") THEN "time"
  ELSE IF HasVar(c, "ocean_time") THEN "ocean_time" ELSE ""

TimeCoverageOK(c, stride) ==
  TimeName(c) # "" => ArrSize(VarOf(c, TimeName(c)).data) > 0
\* the end taken from the last stored sample instead of the last strided one
get_time_coverage_last(c, stride) ==
  IF TimeName(c) = ""
  THEN <<None, None>>
  ELSE LET stored == VarOf(c, TimeName(c)).data.flat
       IN <<Strftime(Num2Date(stored[1])),
            Strftime(Num2Date(stored[Len(stored)]))>>

get_time_coverage(c, stride) ==
  IF TimeName(c) = ""
  THEN <<None, None>>
  ELSE LET sample == Strided(VarOf(c, TimeName(c)).data.flat, stride)
       IN <<Strftime(Num2Date(sample[1])),
            Strftime(Num2Date(sample[Len(sample)]))>>

\* getncattrs(nc): the global attributes as a dictionary
getncattrs(c) == [k \in GAttrKeys(c) |-> GAttr(c, k)]

NeedsCoverage(s) ==
  ("time_coverage_start" \notin DOMAIN s) \/ ("time_coverage_end" \notin DOMAIN s)

\* s after the coverage test of geojson
Properties(c, stride) ==
  LET s == getncattrs(c)
      cov == get_time_coverage(c, stride)
  IN IF NeedsCoverage(s)
     THEN [k \in DOMAIN s \cup {"time_coverage_start", "time_coverage_end"} |->
             IF k = "time_coverage_start" THEN cov[1]
             ELSE IF k = "time_coverage_end" THEN cov[2]
             ELSE s[k]]
     ELSE s

PropertiesOK(c, stride) ==
  NeedsCoverage(getncattrs(c)) => TimeCoverageOK(c, stride)

\* zip(xs, ys) stops at the shorter of the two
Zip(xs, ys) ==
  [j \in 1..(IF Len(xs) < Len(ys) THEN Len(xs) ELSE Len(ys)) |-> <<xs[j], ys[j]>>]

Below(x) == x < SentinelLimit

\* the else branch: zip(lon[lon<1000], lat[lat<1000])
LineCoords(lon, lat) == Zip(SelectSeq(lon, Below), SelectSeq(lat, Below))

\* the loop body: mask = lon.mask == False; subbool = lon[mask] < 1000;
\* zip(lon[mask][subbool], lat[mask][subbool])
ColumnCoords(lon, lat) ==
  LET keep == {j \in DOMAIN lon : lon[j] # NC_FILL_F8 /\ lon[j] < SentinelLimit}
      pairs == [j \in DOMAIN lon |-> <<lon[j], lat[j]>>]
  IN [j \in 1..Cardinality(keep) |->
        pairs[CHOOSE i \in keep : Cardinality({h \in keep : h < i}) = j - 1]]

IdNone == [kind |-> "none", s |-> "", n |-> 0]
IdAttr(v) == [kind |-> "attr", s |-> v, n |-> 0]
IdInt(v) == [kind |-> "int", s |-> "", n |-> v]

\* f of the else branch
SingleFeature(c, stride) ==
  LET lon == FlatSample(VarOf(c, "lon").data, stride)
      lat == FlatSample(VarOf(c, "lat").data, stride)
      s == Properties(c, stride)
  IN [type |-> "Feature",
      id |-> IF "id" \in DOMAIN s THEN IdAttr(s["id"]) ELSE IdNone,
      coords |-> LineCoords(lon, lat),
      props |-> s]
\* the loop body with the column index as the id in every case
ColumnFeatureByIndex(c, stride, i) ==
  [type |-> "Feature",
   id |-> IdInt(i),
   coords |-> ColumnCoords(ColumnSample(VarOf(c, "lon").data, stride, i),
                           ColumnSample(VarOf(c, "lat").data, stride, i)),
   props |-> Properties(c, stride)]

\* the feature appended for column i (from 0)
ColumnFeature(c, stride, i) ==
  [type |-> "Feature",
   id |-> IF HasVar(c, "trajectory")
          THEN IdInt(VarOf(c, "trajectory").data.flat[i + 1])
          ELSE IdInt(i),
   coords |-> ColumnCoords(ColumnSample(VarOf(c, "lon").data, stride, i),
                           ColumnSample(VarOf(c, "lat").data, stride, i)),
   props |-> Properties(c, stride)]

FeatureCollection(c, stride) ==
  [type |-> "FeatureCollection",
   features |-> [i \in 1..VarOf(c, "lon").data.shape[2] |->
                   ColumnFeature(c, stride, i - 1)]]

IsMulti(c) == Len(VarOf(c, "lon").data.shape) = 2

\* the else branch taken whatever the rank of lon
ProjectionSingle(c, stride) == SingleFeature(c, stride)

\* f: a FeatureCollection when lon has two axes, a Feature otherwise
Projection(c, stride) ==
  IF IsMulti(c) THEN FeatureCollection(c, stride) ELSE SingleFeature(c, stride)

\* the exception the body of the with block raises, "none" if it raises none
BodyError(c, stride) ==
  IF ~HasVar(c, "lat") /\ (IsMulti(c) => VarOf(c, "lon").data.shape[2] > 0)
  THEN "KeyError"
  ELSE IF IsMulti(c)
  THEN IF VarOf(c, "lon").data.shape[2] = 0 THEN "none"
       ELSE IF ~PropertiesOK(c, stride) THEN "IndexError"
       ELSE IF HasVar(c, "trajectory")
               /\ ArrSize(VarOf(c, "trajectory").data) < VarOf(c, "lon").data.shape[2]
       THEN "IndexError"
       ELSE "none"
  ELSE IF ~PropertiesOK(c, stride) THEN "IndexError" ELSE "none"

----------------------------------------------------------------------------
(* The containers geojson is called on *)

LongLens == {500, StrideLimit, StrideLimit + 1, 1500}

\* (lon, lat) points: plain, beyond the sentinel limit on either side,
\* longitude unwritten, latitude unwritten
Points ==
  { <<10, 1>>, <<20, 2>>, <<1500, 3>>, <<0 - 1500, 4>>,
    <<NC_FILL_F8, 5>>, <<30, NC_FILL_F8>> }
LongPoints == { <<10, 1>>, <<1500, 3>>, <<30, NC_FILL_F8>> }
MultiPoints == { <<10, 1>>, <<1500, 3>>, <<NC_FILL_F8, 5>> }

Short1D ==
  UNION {{[shape |-> <<n>>, pts |-> p] : p \in [1..n -> Points]} :
           n \in 0..MaxProjLen}
\* a long series: three points a long stride apart, every other record
\* unwritten
Unwritten == <<NC_FILL_F8, NC_FILL_F8>>
Long1D ==
  {[shape |-> <<n>>,
    pts |-> [f \in 1..n |->
               IF (f - 1) % LongStride = 0 /\ (f - 1) \div LongStride < 3
               THEN pat[((f - 1) \div LongStride) + 1]
               ELSE Unwritten]] :
     n \in LongLens, pat \in [1..3 -> LongPoints]}
Multi ==
  UNION {{[shape |-> <<n, T>>, pts |-> p] : p \in [1..(n * T) -> MultiPoints]} :
           n \in 0..MaxProjLen - 1, T \in 1..MaxProjTraj}

Feature(lon, lat, times, cov, id, traj) ==
  [lon |-> lon, lat |-> lat, times |-> times, cov |-> cov, id |-> id,
   traj |-> traj]

\* traj: the trajectory variable is "absent", or holds one entry per column
\* ("unique": all different, "repeated": all the same), or is one entry
\* "short" of the columns
TrajKinds == {"absent", "unique", "repeated", "short"}

Usual == Feature(TRUE, TRUE, {"time"}, {}, FALSE, "unique")

Features ==
  {Feature(lon, lat, times, cov, id, traj) :
     lon \in BOOLEAN, lat \in BOOLEAN,
     times \in SUBSET {"time", "ocean_time"},
     cov \in SUBSET {"time_coverage_start", "time_coverage_end"},
     id \in BOOLEAN, traj \in TrajKinds}

FewBases ==
  { [shape |-> <<2>>, pts |-> << <<10, 1>>, <<20, 2>> >>],
    [shape |-> <<2, 2>>,
     pts |-> << <<10, 1>>, <<20, 2>>, <<1500, 3>>, <<30, 4>> >>],
    [shape |-> <<2, 0>>, pts |-> <<>>] }

TimeOf(name, f) ==
  IF name = "time" THEN [min |-> 3 * f, sec |-> 20]
  ELSE [min |-> 500 + 3 * f, sec |-> 40]

StoredVar(name, dtype, dims, arr) ==
  [name |-> name, dtype |-> dtype, dims |-> dims, fill |-> (name \in {"lon", "lat"}),
   atts |-> <<>>, written |-> TRUE, data |-> arr]

Stored(base, ft) ==
  LET n == base.shape[1]
      multi == Len(base.shape) = 2
      T == IF multi THEN base.shape[2] ELSE 1
      dims == IF multi THEN <<"time", "trajectory">> ELSE <<"time">>
      coord(i) == [shape |-> base.shape,
                   flat |-> [f \in DOMAIN base.pts |-> base.pts[f][i]]]
      timevar(name) ==
        StoredVar(name, "f8", <<"time">>,
                  [shape |-> <<n>>,
                   flat |-> [f \in 1..n |-> Date2Num(TimeOf(name, f))]])
      declared == [k \in ft.cov \cup (IF ft.id THEN {"id"} ELSE {}) |->
                     IF k = "id" THEN "glider-1"
                     ELSE [isnone |-> FALSE, min |-> 7777]]
      order == Sorted(DOMAIN declared)
      ntraj == IF ft.traj = "short" /\ T > 0 THEN T - 1 ELSE T
  IN [exists |-> TRUE,
      dims |-> << [name |-> "time", size |-> n, unlimited |-> FALSE],
                  [name |-> "trajectory", size |-> T, unlimited |-> (T = 0)] >>,
      gattrs |-> [i \in DOMAIN order |-> <<order[i], declared[order[i]]>>],
      vars |->
        (IF "ocean_time" \in ft.times THEN <<timevar("ocean_time")>> ELSE <<>>)
        \o (IF "time" \in ft.times THEN <<timevar("time")>> ELSE <<>>)
        \o (IF ft.traj # "absent"
            THEN <<StoredVar("trajectory", "i2", <<"trajectory">>,
                             [shape |-> <<ntraj>>,
                              flat |-> [f \in 1..ntraj |->
                                          IF ft.traj = "repeated" THEN 9
                                          ELSE 10 - f]])>>
            ELSE <<>>)
        \o (IF ft.lat THEN <<StoredVar("lat", "f8", dims, coord(2))>> ELSE <<>>)
        \o (IF ft.lon THEN <<StoredVar("lon", "f8", dims, coord(1))>> ELSE <<>>)]

\* two columns with a longitude far below -1000 in each
WestMulti ==
  {[shape |-> <<2, 2>>,
    pts |-> << <<0 - 1500, 4>>, <<10, 1>>, <<20, 2>>, <<0 - 1500, 4>> >>]}

ProjContainers ==
  {Stored(b, Usual) : b \in Short1D \cup Long1D \cup Multi \cup WestMulti}
  \cup {Stored(b, ft) : b \in FewBases, ft \in Features}

----------------------------------------------------------------------------
(* One call of geojson *)

WriterIdle ==
  /\ wpc = "idle" /\ wargs = NoArgs /\ whandle = "none" /\ werr = "none"
  /\ wk = 0

InitProj ==
  /\ disk \in ProjContainers \cup {NoFile}
  /\ prior = disk
  /\ WriterIdle
  /\ rpc = "open" /\ rhandle = "none" /\ rerr = "none" /\ rstride = 0
  /\ rlon = <<>> /\ rlat = <<>> /\ rres = NoResponse

\* with Dataset(dap) as nc: entering the block; a path that holds no
\* container raises before there is a handle
ROpen ==
  /\ rpc = "open"
  /\ IF disk.exists
     THEN rhandle' = "open" /\ rpc' = "stride" /\ rerr' = rerr
     ELSE rhandle' = rhandle /\ rpc' = "failed" /\ rerr' = "RuntimeError"
  /\ UNCHANGED <<disk, prior, wvars, rstride, rlon, rlat, rres>>

\* stride = get_stride(nc)
RStride ==
  /\ rpc = "stride"
  /\ IF HasVar(disk, "lon")
     THEN rstride' = get_stride(disk) /\ rpc' = "body" /\ rerr' = rerr
     ELSE rstride' = rstride /\ rpc' = "exit" /\ rerr' = "KeyError"
  /\ UNCHANGED <<disk, prior, wvars, rhandle, rlon, rlat, rres>>
\* the body with the derived coverage stored in the container as well
RBodyStoring ==
  /\ rpc = "body"
  /\ rpc' = "exit"
  /\ IF BodyError(disk, rstride) # "none"
     THEN /\ rerr' = BodyError(disk, rstride)
          /\ UNCHANGED <<disk, rlon, rlat, rres>>
     ELSE /\ rerr' = rerr
          /\ disk' = [disk EXCEPT !.gattrs =
                        LET s == Properties(disk, rstride)
                            new == Sorted(DOMAIN s \ GAttrKeys(disk))
                        IN @ \o [i \in DOMAIN new |-> <<new[i], s[new[i]]>>]]
          /\ \E callback \in {"", "cb"} :
               rres' = [f |-> Projection(disk, rstride),
                        callback |-> callback]
          /\ IF IsMulti(disk)
             THEN LET T == VarOf(disk, "lon").data.shape[2] IN
                    /\ rlon' = IF T = 0 THEN rlon
                               ELSE ColumnSample(VarOf(disk, "lon").data, rstride, T - 1)
                    /\ rlat' = IF T = 0 THEN rlat
                               ELSE ColumnSample(VarOf(disk, "lat").data, rstride, T - 1)
             ELSE /\ rlon' = FlatSample(VarOf(disk, "lon").data, rstride)
                  /\ rlat' = FlatSample(VarOf(disk, "lat").data, rstride)
  /\ UNCHANGED <<prior, wvars, rhandle, rstride>>

\* the if/else over the rank of lon, gj.dumps and the callback wrapping
RBody ==
  /\ rpc = "body"
  /\ rpc' = "exit"
  /\ IF BodyError(disk, rstride) # "none"
     THEN /\ rerr' = BodyError(disk, rstride)
          /\ UNCHANGED <<rlon, rlat, rres>>
     ELSE /\ rerr' = rerr
          /\ \E callback \in {"", "cb"} :
               rres' = [f |-> Projection(disk, rstride),
                        callback |-> callback]
          /\ IF IsMulti(disk)
             THEN LET T == VarOf(disk, "lon").data.shape[2] IN
                    /\ rlon' = IF T = 0 THEN rlon
                               ELSE ColumnSample(VarOf(disk, "lon").data, rstride, T - 1)
                    /\ rlat' = IF T = 0 THEN rlat
                               ELSE ColumnSample(VarOf(disk, "lat").data, rstride, T - 1)
             ELSE /\ rlon' = FlatSample(VarOf(disk, "lon").data, rstride)
                  /\ rlat' = FlatSample(VarOf(disk, "lat").data, rstride)
  /\ UNCHANGED <<disk, prior, wvars, rhandle, rstride>>

\* leaving the with block closes nc, on return and on an exception alike
RExit ==
  /\ rpc = "exit"
  /\ rhandle' = "closed"
  /\ rpc' = IF rerr = "none" THEN "done" ELSE "failed"
  /\ UNCHANGED <<disk, prior, wvars, rerr, rstride, rlon, rlat, rres>>

NextProj == ROpen \/ RStride \/ RBody \/ RExit

SpecProj == InitProj /\ [][NextProj]_vars

----------------------------------------------------------------------------
(* Properties *)

Ended == wpc \in {"done", "failed"}

\* a required array whose leading length differs from that of its series
RequiredMismatch(a) ==
  \/ \E i \in DOMAIN ReqTimeVars : LeadLen(a.data[ReqTimeVars[i]]) # time_size(a)
  \/ \E i \in DOMAIN ReqUvVars : LeadLen(a.data[ReqUvVars[i]]) # time_uv_size(a)

\* C1: a call with a mismatched required array fails with the shape error,
\* and when the mismatch is detected nothing has been created or opened at
\* the destination.
C1_FailFast ==
  (Ended /\ RequiredMismatch(wargs)) =>
     /\ wpc = "failed" /\ werr = "AssertionError"
     /\ whandle = "none"
     /\ disk = prior

\* C2: after a failed write to a destination that held a committed
\* container, the destination still holds exactly that container.
C2_PriorIntact ==
  (wpc = "failed" /\ prior.exists) => disk = prior

\* C3: whenever a write call or a read/project call has returned or raised,
\* the storage handle it opened has been closed.
C3_NoLeak ==
  /\ Ended => whandle # "open"
  /\ rpc \in {"done", "failed"} => rhandle # "open"

Complete(c) ==
  /\ c.exists
  /\ DimNames(c) = {"time", "trajectory", "time_uv"}
  /\ {c.vars[i].name : i \in DOMAIN c.vars} = VarNames
  /\ GAttrKeys(OldContainer) \subseteq GAttrKeys(c)

\* C4: at every step of a write the destination holds either no new
\* container (what it held before) or the complete one, so a reader opening
\* it at any moment never sees some but not all of the dimensions,
\* variables and attributes.
C4_Whole ==
  disk = prior \/ Complete(disk)

TimeClassVars ==
  {"segment_id", "profile_id", "depth", "lat", "lon", "pressure",
   "conductivity", "density", "salinity", "temperature",
   "depth_qc", "lat_qc", "lon_qc", "pressure_qc", "conductivity_qc",
   "density_qc", "salinity_qc", "temperature_qc"}
UvClassVars == {"lat_uv", "lon_uv", "u", "u_qc", "v", "v_qc"}

LaidOut(names, dim, len, T) ==
  \A n \in names :
     LET v == VarOf(disk, n) IN
       /\ T = 1 => v.dims = <<dim>> /\ v.data.shape = <<len>>
       /\ T > 1 => v.dims = <<dim, "trajectory">> /\ v.data.shape = <<len, T>>

\* C5: after a successful write with time length L, every time-class
\* variable is declared over (time) with shape (L,) when the trajectory
\* count is 1 and over (time, trajectory) with shape (L, T) when it is
\* T > 1; the time_uv-class variables follow the same choice over time_uv.
C5_Layout ==
  wpc = "done" =>
     /\ LaidOut(TimeClassVars, "time", Len(wargs.data["time"].flat),
                Len(wargs.data["trajectory"].flat))
     /\ LaidOut(UvClassVars, "time_uv", Len(wargs.data["time_uv"].flat),
                Len(wargs.data["trajectory"].flat))

C5_Witness ==
  /\ wpc = "done"
  /\ Len(wargs.data["trajectory"].flat) > 1
  /\ Len(wargs.data["time"].flat) > 1
  /\ VarOf(disk, "depth").data.shape = <<2, 2>>

\* C6: for every quality argument the caller omits, the quality variable
\* is never assigned and every element of it is the int8 fill value, from
\* its creation to the committed container.
C6_OmittedQcAllFill ==
  wpc \in {"vars", "close", "done", "failed"} =>
     \A q \in QcNames \ wargs.given :
        HasVar(disk, q) =>
           LET v == VarOf(disk, q) IN
             /\ ~v.written
             /\ \A f \in DOMAIN v.data.flat : v.data.flat[f] = NC_FILL_I1

C6_Witness ==
  /\ wpc = "done"
  /\ wargs.given = {"lat_qc"}
  /\ Len(VarOf(disk, "depth_qc").data.flat) > 1
  /\ Len(VarOf(disk, "u_qc").data.flat) > 0

\* C7: every value stored in a quality variable the caller supplied lies
\* in 0..9.
C7_QcDomain ==
  wpc = "done" =>
     \A q \in wargs.given :
        \A x \in Range(VarOf(disk, q).data.flat) : x \in 0..9

Ceil(n, d) == (n + d - 1) \div d

LonLen == VarOf(disk, "lon").data.shape[1]

\* the loop over the columns ran at least once, or the else branch ran
Sampled == IsMulti(disk) => VarOf(disk, "lon").data.shape[2] > 0

\* C8: the stride is 200 when the leading axis of lon is longer than 1000
\* and 1 otherwise, and the strided sample has ceil(n / stride) points
\* before masking: 500 points for n = 500, 8 for n = 1500.
C8_StrideLaw ==
  (HasVar(disk, "lon") /\ rpc \in {"body", "exit", "done", "failed"}) =>
     /\ rstride = IF LonLen > 1000 THEN 200 ELSE 1
     /\ LonLen = 1000 => rstride = 1
     /\ LonLen = 1001 => rstride = 200
     /\ (rpc \in {"exit", "done"} /\ rerr = "none" /\ Sampled) =>
           /\ Len(rlon) = Ceil(LonLen, rstride)
           /\ LonLen = 500 => Len(rlon) = 500
           /\ LonLen = 1500 => Len(rlon) = 8

C8_Witness ==
  /\ rpc = "done"
  /\ LonLen = 1500
  /\ rstride = 200
  /\ Len(rlon) = 8

Abs(x) == IF x < 0 THEN 0 - x ELSE x

\* the samples the masking law drops: longitude unwritten or of magnitude
\* 1000 or more
Dropped(lon) ==
  {j \in DOMAIN lon : lon[j] = NC_FILL_F8 \/ Abs(lon[j]) >= 1000}

SingleDone == rpc = "done" /\ rres.f.type = "Feature"

\* C9: in the single-trajectory projection the number of coordinates is
\* the number of strided samples less the number of those whose longitude
\* is masked; the latitudes have no say in it.
C9_MaskingLaw ==
  SingleDone =>
     Len(rres.f.coords) = Len(rlon) - Cardinality(Dropped(rlon))

\* coords is made of the pairs (lon[i], lat[i]) at strictly increasing
\* indices i >= from
RECURSIVE InOrder(_, _, _, _)
InOrder(coords, lon, lat, from) ==
  IF coords = <<>> THEN TRUE
  ELSE LET later == {i \in from..Len(lon) : Head(coords) = <<lon[i], lat[i]>>}
       IN /\ later # {}
          /\ InOrder(Tail(coords), lon, lat,
                     (CHOOSE i \in later : \A h \in later : i <= h) + 1)

\* C10: in the single-trajectory projection every coordinate is
\* (lon[i], lat[i]) for one strided index i, and the coordinates come in
\* increasing order of i.
C10_Pairing ==
  SingleDone => InOrder(rres.f.coords, rlon, rlat, 1)

----------------------------------------------------------------------------
(* C11: the features of a multi-trajectory container *)

MultiDone == rpc = "done" /\ rres.f.type = "FeatureCollection"

Columns == VarOf(disk, "lon").data.shape[2]

\* the id the claim gives to the feature of column i (from 1)
ClaimedId(i) ==
  IF HasVar(disk, "trajectory")
  THEN IdInt(VarOf(disk, "trajectory").data.flat[i])
  ELSE IdInt(i - 1)

\* T features, feature i made from column i, with the claimed ids
ColumnOrder ==
  LET fs == rres.f.features
  IN /\ Len(fs) = Columns
     /\ \A i \in 1..Columns :
          /\ fs[i].id = ClaimedId(i)
          /\ fs[i].coords =
               ColumnCoords(ColumnSample(VarOf(disk, "lon").data, rstride, i - 1),
                            ColumnSample(VarOf(disk, "lat").data, rstride, i - 1))

DistinctIds ==
  \A i, j \in 1..Len(rres.f.features) :
     i # j => rres.f.features[i].id # rres.f.features[j].id

DistinctTrajectories ==
  HasVar(disk, "trajectory") =>
    \A i, j \in 1..Columns :
       i # j => VarOf(disk, "trajectory").data.flat[i]
                  # VarOf(disk, "trajectory").data.flat[j]

----------------------------------------------------------------------------
(* C12: containers without lat or without lon *)

LacksCoordinate == disk.exists /\ (~HasVar(disk, "lon") \/ ~HasVar(disk, "lat"))

\* C12: projecting a container that lacks lat or lacks lon ends with the
\* error of a missing variable (KeyError) and returns no geometry, for
\* single-trajectory and multi-trajectory containers alike.
C12_MissingCoordinate ==
  (LacksCoordinate /\ rpc \in {"done", "failed"}) =>
     /\ rpc = "failed"
     /\ rerr = "KeyError"
     /\ rres = NoResponse

----------------------------------------------------------------------------
(* C13, C14: the global attributes of a committed container *)

Committed == wpc = "done"

IsMaxOf(m, arr) == m \in Range(arr.flat) /\ \A x \in Range(arr.flat) : x <= m
IsMinOf(m, arr) == m \in Range(arr.flat) /\ \A x \in Range(arr.flat) : m <= x

GeoKeys ==
  {"geospatial_lat_min", "geospatial_lat_max", "geospatial_lon_min",
   "geospatial_lon_max", "geospatial_vertical_min", "geospatial_vertical_max"}

KwKeys(a) == {a.kwargs[i][1] : i \in DOMAIN a.kwargs}

GeoBounds ==
  /\ IsMinOf(GAttr(disk, "geospatial_lat_min"), VarOf(disk, "lat").data)
  /\ IsMaxOf(GAttr(disk, "geospatial_lat_max"), VarOf(disk, "lat").data)
  /\ IsMinOf(GAttr(disk, "geospatial_lon_min"), VarOf(disk, "lon").data)
  /\ IsMaxOf(GAttr(disk, "geospatial_lon_max"), VarOf(disk, "lon").data)
  /\ IsMinOf(GAttr(disk, "geospatial_vertical_min"), VarOf(disk, "depth").data)
  /\ IsMaxOf(GAttr(disk, "geospatial_vertical_max"), VarOf(disk, "depth").data)

\* C13 as stated: in every committed container, whatever the arrays and the
\* overrides of the caller, the six geospatial bounds are the minimum and the
\* maximum of the stored lat, lon and depth arrays.
C13_GeoBounds == Committed => GeoBounds

\* C13, amended: the six geospatial bounds are the extrema of the stored
\* arrays in every committed container whose caller overrode none of the six.
C13_GeoBoundsNotOverridden ==
  (Committed /\ KwKeys(wargs) \cap GeoKeys = {}) => GeoBounds

C13_Witness ==
  /\ Committed
  /\ KwKeys(wargs) = {"title"}
  /\ GAttr(disk, "geospatial_lat_min") < GAttr(disk, "geospatial_lat_max")
  /\ GAttr(disk, "geospatial_lon_min") < GAttr(disk, "geospatial_lon_max")
  /\ GAttr(disk, "geospatial_vertical_min") < GAttr(disk, "geospatial_vertical_max")
  /\ VarOf(disk, "lat").data.flat[1] = GAttr(disk, "geospatial_lat_max")

DefaultKeys(a) == {GlobalDefaults(a)[i][1] : i \in DOMAIN GlobalDefaults(a)}

\* C14: in a committed container every key the caller supplied has the
\* caller's value, whether or not there is a default of that key, every
\* default key the caller did not supply has its default value, and there is
\* no other global attribute.
C14_OverridePrecedence ==
  Committed =>
     /\ \A i \in DOMAIN wargs.kwargs :
          /\ wargs.kwargs[i][1] \in GAttrKeys(disk)
          /\ GAttr(disk, wargs.kwargs[i][1]) = wargs.kwargs[i][2]
     /\ \A i \in DOMAIN GlobalDefaults(wargs) :
          GlobalDefaults(wargs)[i][1] \notin KwKeys(wargs) =>
             /\ GlobalDefaults(wargs)[i][1] \in GAttrKeys(disk)
             /\ GAttr(disk, GlobalDefaults(wargs)[i][1]) = GlobalDefaults(wargs)[i][2]
     /\ GAttrKeys(disk) = DefaultKeys(wargs) \cup KwKeys(wargs)
     /\ Len(disk.gattrs) = Cardinality(GAttrKeys(disk))

\* a committed container with an override of a default key and a key that
\* has no default
C14_Witness ==
  /\ Committed
  /\ KwKeys(wargs) = {"geospatial_lat_min", "zz_extra"}
  /\ GAttr(disk, "geospatial_lat_min") = 0 - 90
  /\ GAttr(disk, "zz_extra") = "x"
  /\ GAttr(disk, "title") = "Glider Dataset"

----------------------------------------------------------------------------
(* C15, C16, C17: the time coverage of the projected features *)

CoverageKeys == {"time_coverage_start", "time_coverage_end"}

\* the property mappings of the features returned
ReturnedProps ==
  IF rres.f.type = "Feature" THEN {rres.f.props}
  ELSE IF rres.f.type = "FeatureCollection"
  THEN {rres.f.features[i].props : i \in DOMAIN rres.f.features}
  ELSE {}

\* C15: for time_coverage_start and time_coverage_end taken one by one, a
\* key the container declares reaches the properties of the projected
\* feature with the declared value, also when only one of the two is
\* declared; a derived value stands only under a key that is not declared.
C15_DeclaredCoverageWins ==
  rpc = "done" =>
    \A p \in ReturnedProps : \A k \in CoverageKeys :
       k \in GAttrKeys(disk) => (k \in DOMAIN p /\ p[k] = GAttr(disk, k))

\* the coverage derived from the variable of the given name
CoverageFrom(name) ==
  LET sample == Strided(VarOf(disk, name).data.flat, rstride)
  IN <<Strftime(Num2Date(sample[1])), Strftime(Num2Date(sample[Len(sample)]))>>

\* C16: when the container has both ocean_time and time, a derived time
\* coverage comes from ocean_time; time is used only without ocean_time.
C16_OceanTimeFirst ==
  (rpc = "done" /\ NeedsCoverage(getncattrs(disk))
     /\ HasVar(disk, "ocean_time") /\ HasVar(disk, "time")) =>
    \A p \in ReturnedProps :
       /\ p["time_coverage_start"] = CoverageFrom("ocean_time")[1]
       /\ p["time_coverage_end"] = CoverageFrom("ocean_time")[2]

NoTimeVariable ==
  /\ disk.exists /\ HasVar(disk, "lon") /\ HasVar(disk, "lat")
  /\ ~HasVar(disk, "ocean_time") /\ ~HasVar(disk, "time")

\* C17: projecting a container that has lon and lat but neither ocean_time
\* nor time ends with the error of a missing variable, and no returned
\* feature has a none value under time_coverage_start or time_coverage_end.
C17_NoTimeFails ==
  /\ (NoTimeVariable /\ rpc \in {"done", "failed"}) =>
        rpc = "failed" /\ rerr = "KeyError" /\ rres = NoResponse
  /\ \A p \in ReturnedProps : \A k \in CoverageKeys \cap DOMAIN p : p[k] # None

----------------------------------------------------------------------------
(* C18: the container read back after a write *)

\* the global attributes read back, as a mapping
StoredGlobals == [k \in GAttrKeys(disk) |-> GAttr(disk, k)]

\* C18: after a write that succeeds, the container read back has a time
\* dimension as long as the time series, a trajectory dimension as long as
\* the list of trajectories and a time_uv dimension as long as the time_uv
\* series, and its global attributes are, key by key and value by value, the
\* merge of the defaults and the overrides.
C18_RoundTrip ==
  Committed =>
     /\ DimNames(disk) = {"time", "trajectory", "time_uv"}
     /\ DimSize(disk, "time") = Len(wargs.data["time"].flat)
     /\ DimSize(disk, "trajectory") = Len(wargs.data["trajectory"].flat)
     /\ DimSize(disk, "time_uv") = Len(wargs.data["time_uv"].flat)
     /\ StoredGlobals = MergedGlobals(wargs)

\* a write of two records, one trajectory and one time_uv record, with an
\* override
C18_Witness ==
  /\ Committed
  /\ DimSize(disk, "time") = 2
  /\ DimSize(disk, "trajectory") = 1
  /\ DimSize(disk, "time_uv") = 1
  /\ Len(wargs.kwargs) = 2
  /\ Len(disk.gattrs) = 51

----------------------------------------------------------------------------
(* C19: the shape check of segment_id and profile_id *)

IdMismatch(a) ==
  \E n \in {"segment_id", "profile_id"} : LeadLen(a.data[n]) # time_size(a)

NothingCreated == disk.exists => (disk.dims = <<>> /\ disk.vars = <<>>)

\* C19: a write in which segment_id or profile_id is not as long as the time
\* series ends with the shape-mismatch error (AssertionError) before any
\* dimension or variable is created, as it does for depth, lat, lon,
\* pressure, conductivity, density, salinity and temperature.
C19_IdsShapeChecked ==
  (IdMismatch(wargs) /\ Ended) =>
     /\ wpc = "failed"
     /\ werr = "AssertionError"
     /\ NothingCreated

----------------------------------------------------------------------------
(* C20: the read path and the container *)

\* C20: at every point of a projection the container (its dimensions,
\* variables, data and stored global attributes) is what it was before the
\* call; the derived time coverage is in the returned properties only.
C20_ReadOnly == disk = prior

\* a projection that derived the time coverage of a container that declares
\* none
C20_Witness ==
  /\ rpc = "done"
  /\ CoverageKeys \cap GAttrKeys(disk) = {}
  /\ \E p \in ReturnedProps :
       /\ p["time_coverage_start"] # None
       /\ p["time_coverage_end"] # None
  /\ CoverageKeys \cap GAttrKeys(prior) = {}

----------------------------------------------------------------------------
(* C21: the shape check of the supplied quality arrays *)

TimeQcNames ==
  {"time_qc", "depth_qc", "lat_qc", "lon_qc", "pressure_qc",
   "conductivity_qc", "density_qc", "salinity_qc", "temperature_qc"}

UvQcNames == {"u_qc", "v_qc"}

\* a supplied quality array that is not as long as its governing dimension
QcMismatch(a) ==
  \/ \E n \in TimeQcNames \cap a.given : LeadLen(a.data[n]) # time_size(a)
  \/ \E n \in UvQcNames \cap a.given : LeadLen(a.data[n]) # time_uv_size(a)

\* C21: a write with a supplied quality array (time_qc, u_qc, v_qc, or one of
\* depth_qc ... temperature_qc) that is not as long as its governing
\* dimension ends with the shape-mismatch error (AssertionError) before any
\* variable is created.
C21_QcShapeChecked ==
  (QcMismatch(wargs) /\ Ended) =>
     /\ wpc = "failed"
     /\ werr = "AssertionError"
     /\ disk.vars = <<>>

----------------------------------------------------------------------------
(* C22: the sentinel test *)

\* the coordinate lists of the features returned
ReturnedCoords ==
  IF rres.f.type = "Feature" THEN {rres.f.coords}
  ELSE IF rres.f.type = "FeatureCollection"
  THEN {rres.f.features[i].coords : i \in DOMAIN rres.f.features}
  ELSE {}

\* C22: no coordinate of a projected line, of a single-trajectory or of a
\* multi-trajectory container, has a longitude of magnitude 1000 or more: a
\* sample with longitude <= -1000 is dropped as one with longitude >= 1000.
C22_MagnitudeTest ==
  rpc = "done" =>
    \A cs \in ReturnedCoords : \A j \in DOMAIN cs : Abs(cs[j][1]) < SentinelLimit

----------------------------------------------------------------------------
(* C23: a written container, projected *)

\* what geojson returns for the container on disk
Reprojected == Projection(disk, get_stride(disk))

Trajectories == Len(wargs.data["trajectory"].flat)

\* C23: a container written with one trajectory projects to a single
\* Feature; one written with T > 1 trajectories projects to a
\* FeatureCollection of T features whose ids are the entries of the written
\* trajectory array, in order; the projector takes the multi-trajectory
\* branch exactly when the writer laid the variables out in two axes.
C23_WriteThenProject ==
  Committed =>
     /\ BodyError(disk, get_stride(disk)) = "none"
     /\ Trajectories = 1 => Reprojected.type = "Feature"
     /\ Trajectories > 1 =>
          /\ Reprojected.type = "FeatureCollection"
          /\ Len(Reprojected.features) = Trajectories
          /\ \A i \in 1..Trajectories :
               Reprojected.features[i].id = IdInt(wargs.data["trajectory"].flat[i])
     /\ (Reprojected.type = "FeatureCollection") <=> (Len(dim_tuple(wargs)) = 2)
     /\ (Reprojected.type = "Feature") <=> (Len(dim_tuple(wargs)) = 1)

\* two records written for two trajectories and projected to two features
C23_Witness ==
  /\ Committed
  /\ Trajectories = 2
  /\ Len(wargs.data["time"].flat) = 2
  /\ Reprojected.type = "FeatureCollection"
  /\ Reprojected.features[1].id = IdInt(9)
  /\ Reprojected.features[2].id = IdInt(8)
  /\ Len(Reprojected.features[1].coords) = 2

----------------------------------------------------------------------------
(* C24: the derived time coverage *)

TimeSeries == VarOf(disk, TimeName(disk)).data.flat

\* the last strided index, counted from 1
LastStrided(n, stride) == stride * ((n - 1) \div stride) + 1

Derived ==
  /\ rpc = "done"
  /\ NeedsCoverage(getncattrs(disk))
  /\ TimeName(disk) # ""
  /\ ReturnedProps # {}

\* C24: when the projector derives the time coverage, time_coverage_start is
\* the formatted time sample at index 0 and time_coverage_end the formatted
\* sample at the last strided index, stride * floor((n_time - 1) / stride),
\* for the stride chosen from the length of lon.
C24_StridedCoverage ==
  Derived =>
    \A p \in ReturnedProps :
       /\ rstride = IF LonLen > StrideLimit THEN LongStride ELSE 1
       /\ p["time_coverage_start"] = Strftime(Num2Date(TimeSeries[1]))
       /\ p["time_coverage_end"] =
            Strftime(Num2Date(TimeSeries[LastStrided(Len(TimeSeries), rstride)]))

\* 1500 records read with stride 200: the end is sample 1400, not sample 1499
C24_Witness ==
  /\ Derived
  /\ Len(TimeSeries) = 1500
  /\ rstride = 200
  /\ \E p \in ReturnedProps :
       /\ p["time_coverage_end"] = Strftime(Num2Date(TimeSeries[1401]))
       /\ p["time_coverage_end"] # Strftime(Num2Date(TimeSeries[1500]))

----------------------------------------------------------------------------
(* C25: the dimensions of a committed container *)

DimOf(c, name) == c.dims[CHOOSE i \in DOMAIN c.dims : c.dims[i].name = name]

\* C25: in every committed container the time dimension is unlimited, and
\* the trajectory and time_uv dimensions have at least one element.
C25_TimeUnlimited ==
  Committed =>
     /\ DimOf(disk, "time").unlimited
     /\ DimSize(disk, "trajectory") >= 1
     /\ DimSize(disk, "time_uv") >= 1

----------------------------------------------------------------------------
(* C26: the fill value of each variable *)

CoordinateVars == {"time", "time_uv", "trajectory"}
DescriptorVars == {"platform", "instrument_ctd"}

\* the element type the claim gives to a variable with a fill value
ClaimedType(name) ==
  IF name \in {"segment_id", "profile_id"} THEN "i2"
  ELSE IF name \in QcNames THEN "i1"
  ELSE "f8"

\* C26: time, time_uv and trajectory are created without a fill value; every
\* other variable that has dimensions is created with the default fill value
\* of its own element type: int16 for segment_id and profile_id, int8 for
\* the quality variables, float64 for the rest.
C26_FillDeclared ==
  \A i \in DOMAIN disk.vars :
     LET v == disk.vars[i] IN
       /\ v.name \in CoordinateVars => ~v.fill
       /\ v.name \notin CoordinateVars \cup DescriptorVars =>
            /\ v.fill
            /\ v.dtype = ClaimedType(v.name)
            /\ ~v.written =>
                 Range(v.data.flat) \subseteq {NC_FILL_VALUES(ClaimedType(v.name))}

\* all thirty variables created, v_qc left at the int8 fill value
C26_Witness ==
  /\ Committed
  /\ Len(disk.vars) = NumVars
  /\ ~VarOf(disk, "time").fill
  /\ VarOf(disk, "segment_id").fill
  /\ VarOf(disk, "v_qc").fill
  /\ ~VarOf(disk, "v_qc").written
  /\ VarOf(disk, "v_qc").data.flat = <<NC_FILL_I1>>

----------------------------------------------------------------------------
(* C27: the order of creation *)

DimOrder == <<"time", "trajectory", "time_uv">>

VarOrder ==
  <<"time", "time_qc", "time_uv", "trajectory", "segment_id", "profile_id",
    "depth", "depth_qc", "lat", "lat_qc", "lon", "lon_qc",
    "pressure", "pressure_qc", "conductivity", "conductivity_qc",
    "density", "density_qc", "salinity", "salinity_qc",
    "temperature", "temperature_qc", "lat_uv", "lon_uv",
    "u", "u_qc", "v", "v_qc", "platform", "instrument_ctd">>

IsPrefix(s, t) == Len(s) <= Len(t) /\ \A i \in DOMAIN s : s[i] = t[i]

CreatedDims == [i \in DOMAIN disk.dims |-> disk.dims[i].name]
CreatedVars == [i \in DOMAIN disk.vars |-> disk.vars[i].name]

\* C27: the dimensions are created in the order time, trajectory, time_uv,
\* all three before any variable; the variables are created in the one fixed
\* order of thirty names, each once, whichever quality arrays are supplied;
\* a write that succeeds has created them all.
C27_CreationOrder ==
  /\ IsPrefix(CreatedDims, DimOrder)
  /\ IsPrefix(CreatedVars, VarOrder)
  /\ CreatedVars # <<>> => CreatedDims = DimOrder
  /\ Committed => CreatedVars = VarOrder

\* a write under way, with every quality array supplied: the dimensions and
\* the first eight variables exist, the rest not yet
C27_Witness ==
  /\ wpc = "vars"
  /\ wargs.given = QcNames
  /\ CreatedDims = DimOrder
  /\ Len(CreatedVars) = 8
  /\ CreatedVars[8] = "depth_qc"

----------------------------------------------------------------------------
(* C28: the order of the attributes *)

\* the place of a key in the ordering of sorted()
Place(k) == CHOOSE i \in DOMAIN KeyOrder : KeyOrder[i] = k

\* each key before the next one, hence before every later one
Ascending(keys) ==
  \A i \in 1..(Len(keys) - 1) : Place(keys[i]) < Place(keys[i + 1])

SchemaOf(name) == Schema[CHOOSE k \in 1..NumVars : Schema[k].name = name]

\* C28: the global attributes are attached in strictly ascending key order;
\* the attributes of every variable are attached in strictly ascending key
\* order, and a variable whose data is written has all of them.
C28_AttributeOrder ==
  /\ Ascending([i \in DOMAIN disk.gattrs |-> disk.gattrs[i][1]])
  /\ \A i \in DOMAIN disk.vars :
       LET v == disk.vars[i] IN
         /\ Ascending(v.atts)
         /\ v.written => Range(v.atts) = Range(SchemaOf(v.name).atts)

\* a write that failed at the assignment of segment_id: its attributes are
\* all there, in order, and its data is not
C28_Witness ==
  /\ wpc = "failed"
  /\ werr = "IndexError"
  /\ Len(disk.vars) = 5
  /\ ~disk.vars[5].written
  /\ disk.vars[5].atts =
       <<"comment", "long_name", "observation_type", "valid_max", "valid_min">>
  /\ disk.vars[1].written
  /\ disk.vars[1].atts[1] = "axis"
  /\ disk.gattrs[1][1] = "Conventions"

----------------------------------------------------------------------------
(* C29: the time coverage the writer stores *)

TimeData == wargs.data["time"].flat

AscendingTimes ==
  \A i \in 1..(Len(TimeData) - 1) : Date2Num(TimeData[i]) <= Date2Num(TimeData[i + 1])

\* C29: in a container written without overrides of the coverage keys,
\* time_coverage_start is the formatted first element of the time series and
\* time_coverage_end the formatted last one; for an ascending series the
\* stored start is not later than the stored end; and the projection of the
\* container carries the start and the end the projector derives with
\* stride 1.
C29_StoredCoverage ==
  (Committed /\ KwKeys(wargs) \cap CoverageKeys = {}) =>
     /\ GAttr(disk, "time_coverage_start") = Strftime(TimeData[1])
     /\ GAttr(disk, "time_coverage_end") = Strftime(TimeData[Len(TimeData)])
     /\ AscendingTimes =>
          GAttr(disk, "time_coverage_start").min <= GAttr(disk, "time_coverage_end").min
     /\ LET p == Properties(disk, get_stride(disk))
            cov == get_time_coverage(disk, 1)
        IN /\ p["time_coverage_start"] = cov[1]
           /\ p["time_coverage_end"] = cov[2]

====
